---- MODULE Spec2Model ----
(* GreenSync front end: the session holder (UserContext), the Login and      *)
(* SignUp forms, the root navigation stack and the Selection screen's        *)
(* search / filter view, as a state machine with one action per handler.     *)
EXTENDS Integers, Sequences, FiniteSets, TLC

VARIABLES
    platform,         \* Platform.OS: "web" or "native" (fixed for a run)
    contextUsername,  \* UserContext: useState(null)
    sessionWrites,    \* setUsername calls so far, counted up to MaxWrites
                      \* (observer)
    navStack,         \* routes of the root stack navigator, focused route last
    alertOpen,        \* title of the native Alert dialog on screen, or "none"
    loginUsername,    \* LoginScreen: useState('')
    loginPassword,    \* LoginScreen: useState('')
    remember,         \* LoginScreen: useState(false)
    suUsername,       \* SignUpScreen: useState('')
    email,            \* SignUpScreen: useState(''), a sequence of characters
    suPassword,       \* SignUpScreen: useState('')
    agree,            \* SignUpScreen: useState(false)
    searchQuery,      \* SelectionScreen: useState(''), a sequence of characters
    filter,           \* SelectionScreen: useState('all')
    presses,          \* number of filter-button activations so far (observer)
    lettuceArray,     \* the array the constant originalLettuces is bound to
    tab,              \* DashboardTabs: the focused tab
    homeStack,        \* DashboardStackNavigator: routes of the Home tab
    profileUser,      \* ProfileScreen: useState(routeUsername || ...), or
                      \* NULL while the Profile tab was never shown
    lettuce,          \* route.params.lettuce of LettuceDetail (its id), or
                      \* NULL
    dashboardSlots,   \* the array DashboardScreen's slots is bound to
    insightsSlots,    \* the array InsightsScreen's slots is bound to
    showModal,        \* InsightsScreen: showTempModal, showHumidityModal, ...
                      \* by metric
    showTooltip,      \* InsightsScreen: showTempTooltip, ... by metric
    currentReading,   \* InsightsScreen: currentTemp, currentHumidity, ...
                      \* by metric
    humidityPref,     \* InsightsScreen: useState('Medium')
    lightMode,        \* InsightsScreen: useState('Auto')
    phMode,           \* InsightsScreen: useState('Auto')
    isLightOn,        \* InsightsScreen (DashboardTabs.js): useState(false)
    lightLevel,       \* InsightsScreen (DashboardTabs.js): useState(2)
    pointerOver,      \* web: the metric whose info icon the pointer is
                      \* over, or "none"
    last              \* what the last form submission did (observer)

vars == <<platform, contextUsername, sessionWrites, navStack, alertOpen,
          loginUsername, loginPassword, remember, suUsername, email, suPassword, agree, searchQuery,
          filter, presses, lettuceArray, tab, homeStack, profileUser,
          lettuce, dashboardSlots, insightsSlots, showModal, showTooltip,
          currentReading, humidityPref, lightMode, phMode, isLightOn,
          lightLevel, pointerOver, last>>

authVars == <<platform, contextUsername, sessionWrites, navStack, alertOpen,
              loginUsername, loginPassword, remember, suUsername, email, suPassword,
              agree, last>>

selVars == <<searchQuery, filter, presses, lettuceArray>>

insVars == <<showModal, showTooltip, currentReading, humidityPref,
             lightMode, phMode, isLightOn, lightLevel, pointerOver>>

dashVars == <<tab, homeStack, profileUser, lettuce, insVars>>

formVars == <<loginUsername, loginPassword, remember, suUsername, email,
              suPassword, agree>>

slotVars == <<dashboardSlots, insightsSlots>>

\* What the sign-in flow never touches
viewVars == <<selVars, slotVars>>

(* ------------------------------------------------------------------ *)
(* Bounds and input alphabets                                          *)
(* ------------------------------------------------------------------ *)

MaxEmailLen == 5
MaxQueryLen == 3
MaxPresses == 6
MaxWrites == 2

NULL == "null"
Platforms == {"web", "native"}
Usernames == {"", "amy", "bob"}
Passwords == {"", "pw"}
EmailChars == {"a", "@", ".", " "}
QueryChars == {"o", "O", "a", "k", "e"}

\* Texts one keystroke away from a text field's content: one character typed
\* at the end, or the last character deleted.
Keystrokes(text, chars, maxLen) ==
    {Append(text, c) : c \in IF Len(text) < maxLen THEN chars ELSE {}}
        \cup (IF Len(text) > 0 THEN {SubSeq(text, 1, Len(text) - 1)} ELSE {})

\* A handful of e-mail texts for the whole-app specification.
EmailSamples ==
    { <<>>,
      <<"a", "@", "a", ".", "a">>,
      <<"a", "@", "a">>,
      <<"a", "@", " ", ".", "a">>,
      <<"@", "a", ".", "a">> }

(* ------------------------------------------------------------------ *)
(* The session holder                                                  *)
(* ------------------------------------------------------------------ *)

\* Faulty variant: a setter that keeps the current value when handed ''.
UserProviderSetIgnoresEmpty(current, name) ==
    IF name = "" THEN current ELSE name

\* setUsername(name) of UserProvider's useState: the value is replaced.
UserProviderSet(current, name) == name

\* The count of setUsername calls after one more call
Written(n) == IF n < MaxWrites THEN n + 1 ELSE MaxWrites

(* ------------------------------------------------------------------ *)
(* Navigation (root stack)                                             *)
(* ------------------------------------------------------------------ *)

TopRoute == navStack[Len(navStack)]

InStack(stack, name) == \E i \in 1..Len(stack) : stack[i] = name

\* navigation.navigate(name): go back to the route of that name when the
\* stack holds one, push it otherwise.
Navigate(stack, name) ==
    IF InStack(stack, name)
    THEN SubSeq(stack, 1, CHOOSE i \in 1..Len(stack) : stack[i] = name)
    ELSE Append(stack, name)

\* navigation.reset({ index: 0, routes: [{ name }] })
ResetTo(name) == <<name>>

\* A screen's useState values live while its route is in the stack.
Mounted(stack, name) == InStack(stack, name)

(* ------------------------------------------------------------------ *)
(* The observer of the last submission                                 *)
(* ------------------------------------------------------------------ *)

NoSubmission ==
    [op |-> "none", outcome |-> "none", username |-> "", email |-> <<>>,
     password |-> "", agree |-> FALSE, session0 |-> NULL, stack0 |-> <<>>,
     alerts |-> <<>>, flag |-> <<"none", "none">>, before |-> FALSE,
     times |-> 0, route |-> "none"]

\* The observer after a handler that passes route `name` to
\* navigation.navigate or navigation.reset and writes nothing else that is
\* observed
Requested(name) == [NoSubmission EXCEPT !.route = name]

\* session0 and stack0 are the session and the stack the handler started
\* from, alerts the titles of the alerts it showed.
Submission(op, outcome, u, e, p, a, n) ==
    [op |-> op, outcome |-> outcome, username |-> u, email |-> e,
     password |-> p, agree |-> a, session0 |-> contextUsername,
     stack0 |-> navStack, alerts |-> n, flag |-> <<"none", "none">>,
     before |-> FALSE, times |-> 0, route |-> "none"]

\* The observer after a press of a card of the Selection screen
Pressed(item, titles) ==
    [NoSubmission EXCEPT !.op = "card", !.flag = <<"card", item.id>>,
                         !.stack0 = navStack, !.alerts = titles]

\* The observer after a handler that writes a boolean flag that held
\* `value`: the second of two such handlers in a row on one flag keeps the
\* value the first one started from.
Toggled(flag, value) ==
    IF last.op = "toggle" /\ last.flag = flag /\ last.times = 1
    THEN [last EXCEPT !.times = 2]
    ELSE [NoSubmission EXCEPT !.op = "toggle", !.flag = flag,
                              !.before = value, !.times = 1]

(* ------------------------------------------------------------------ *)
(* Alerts                                                              *)
(* ------------------------------------------------------------------ *)

\* window.alert blocks inside the handler; Alert.alert leaves a dialog on
\* screen that the user closes with its button.
AlertAfter(title) == IF platform = "web" THEN "none" ELSE title

\* Faulty variant: the OK button of the "Signed Up" dialog has no onPress.
AlertTargetLoginOnly(title) ==
    CASE title = "Lettuce Begin" -> "Login"
      [] OTHER -> "none"

\* The button of the dialog: the two dialogs with an onPress navigate.
AlertTarget(title) ==
    CASE title = "Signed Up" -> "Dashboard"
      [] title = "Lettuce Begin" -> "Login"
      [] OTHER -> "none"

(* ------------------------------------------------------------------ *)
(* Form validation                                                     *)
(* ------------------------------------------------------------------ *)

\* !s for a string held as a string, and for one held as characters
Falsy(s) == s = ""

FalsyText(s) == Len(s) = 0

WhitespaceChars == {" "}

\* [^\s@]
NotSpaceAt(c) == c \notin WhitespaceChars /\ c # "@"

AllNotSpaceAt(s, from, to) == \A j \in from..to : NotSpaceAt(s[j])

\* Faulty variant: the pattern without its "\.[^\s@]+" tail.
EmailRegexTestNoDot(s) ==
    \E i \in 1..Len(s) :
        /\ s[i] = "@"
        /\ 1 < i /\ i < Len(s)
        /\ AllNotSpaceAt(s, 1, i - 1)
        /\ AllNotSpaceAt(s, i + 1, Len(s))

\* /^[^\s@]+@[^\s@]+\.[^\s@]+$/.test(s): some '@' at i and some '.' at k
\* split s into three non-empty runs of [^\s@].
EmailRegexTest(s) ==
    \E i \in 1..Len(s), k \in 1..Len(s) :
        /\ s[i] = "@"
        /\ s[k] = "."
        /\ 1 < i /\ i + 1 < k /\ k < Len(s)
        /\ AllNotSpaceAt(s, 1, i - 1)
        /\ AllNotSpaceAt(s, i + 1, k - 1)
        /\ AllNotSpaceAt(s, k + 1, Len(s))

\* Faulty variant: only the password is tested.
LoginValidPasswordOnly(u, p) == ~Falsy(p)

\* Faulty variant: "!username || password".
LoginValidNegationLost(u, p) == ~(Falsy(u) \/ ~Falsy(p))

\* Faulty variant: only the username is looked at.
LoginValidUsernameOnly(u, p) == ~Falsy(u)

\* handleLogin's guard: both fields filled in
LoginValid(u, p) == ~(Falsy(u) \/ Falsy(p))

\* Faulty variant: the terms are checked before the e-mail.
SignUpOutcomeTermsFirst(u, e, p, a) ==
    IF Falsy(u) \/ FalsyText(e) \/ Falsy(p) THEN "MissingField"
    ELSE IF ~a THEN "TermsNotAccepted"
    ELSE IF ~EmailRegexTest(e) THEN "InvalidEmail"
    ELSE "SignedUp"

\* Faulty variant: the first check leaves the password out.
SignUpOutcomeNoPasswordCheck(u, e, p, a) ==
    IF Falsy(u) \/ FalsyText(e) THEN "MissingField"
    ELSE IF ~EmailRegexTest(e) THEN "InvalidEmail"
    ELSE IF ~a THEN "TermsNotAccepted"
    ELSE "SignedUp"

\* Faulty variant: the terms check is missing.
SignUpOutcomeNoTermsCheck(u, e, p, a) ==
    IF Falsy(u) \/ FalsyText(e) \/ Falsy(p) THEN "MissingField"
    ELSE IF ~EmailRegexTest(e) THEN "InvalidEmail"
    ELSE "SignedUp"

\* handleSignUp's three checks, in the order of the code
SignUpOutcome(u, e, p, a) ==
    IF Falsy(u) \/ FalsyText(e) \/ Falsy(p) THEN "MissingField"
    ELSE IF ~EmailRegexTest(e) THEN "InvalidEmail"
    ELSE IF ~a THEN "TermsNotAccepted"
    ELSE "SignedUp"

\* Faulty variant: the terms branch shows the e-mail branch's alert.
SignUpAlertTitleCopied(outcome) ==
    CASE outcome = "MissingField" -> "Missing Info"
      [] outcome = "InvalidEmail" -> "Invalid Email"
      [] outcome = "TermsNotAccepted" -> "Invalid Email"
      [] outcome = "SignedUp" -> "Signed Up"

\* The title of the alert each sign-up outcome shows
SignUpAlertTitle(outcome) ==
    CASE outcome = "MissingField" -> "Missing Info"
      [] outcome = "InvalidEmail" -> "Invalid Email"
      [] outcome = "TermsNotAccepted" -> "Terms Required"
      [] outcome = "SignedUp" -> "Signed Up"

(* ------------------------------------------------------------------ *)
(* Selection screen: catalog, search and ordering                      *)
(* ------------------------------------------------------------------ *)

\* The static catalog. A property the literal does not give is "undefined".
originalLettuces ==
    << [id |-> "1", name |-> <<"R", "o", "m", "a", "i", "n", "e">>,
        image |-> "lettuce_romaine.png", popular |-> "true",
        placeholder |-> "undefined"],
       [id |-> "2",
        name |-> <<"B", "u", "t", "t", "e", "r", "h", "e", "a", "d">>,
        image |-> "lettuce_butterhead.png", popular |-> "false",
        placeholder |-> "undefined"],
       [id |-> "3", name |-> <<"O", "a", "k", " ", "L", "e", "a", "f">>,
        image |-> "lettuce_oakleaf.png", popular |-> "true",
        placeholder |-> "undefined"],
       [id |-> "4", name |-> <<"C", "o", "s">>,
        image |-> "lettuce_cos.png", popular |-> "false",
        placeholder |-> "undefined"],
       [id |-> "5",
        name |-> <<"C", "o", "m", "i", "n", "g", " ", "S", "o", "o", "n">>,
        image |-> "coming.png", popular |-> "undefined",
        placeholder |-> "true"],
       [id |-> "6",
        name |-> <<"C", "o", "m", "i", "n", "g", " ", "S", "o", "o", "n">>,
        image |-> "coming1.png", popular |-> "undefined",
        placeholder |-> "true"] >>

UpperLetters ==
    <<"A", "B", "C", "D", "E", "F", "G", "H", "I", "J", "K", "L", "M",
      "N", "O", "P", "Q", "R", "S", "T", "U", "V", "W", "X", "Y", "Z">>

LowerLetters ==
    <<"a", "b", "c", "d", "e", "f", "g", "h", "i", "j", "k", "l", "m",
      "n", "o", "p", "q", "r", "s", "t", "u", "v", "w", "x", "y", "z">>

IsUpper(c) == \E i \in 1..Len(UpperLetters) : UpperLetters[i] = c

\* One character of String.prototype.toLowerCase
LowerChar(c) ==
    IF IsUpper(c)
    THEN LowerLetters[CHOOSE i \in 1..Len(UpperLetters) : UpperLetters[i] = c]
    ELSE c

\* String.prototype.toLowerCase
ToLowerCase(s) == [i \in 1..Len(s) |-> LowerChar(s[i])]

\* String.prototype.includes
Includes(hay, needle) ==
    \E off \in 0..(Len(hay) - Len(needle)) :
        SubSeq(hay, off + 1, off + Len(needle)) = needle

\* Faulty variant: the query is not lower-cased.
MatchesQueryCaseSensitive(item, query) ==
    Includes(ToLowerCase(item.name), query)

\* The callback of .filter
MatchesQuery(item, query) ==
    Includes(ToLowerCase(item.name), ToLowerCase(query))

\* Array.prototype.filter: a new array, the matching items in order
FilterByQuery(list, query) ==
    SelectSeq(list, LAMBDA item : MatchesQuery(item, query))

\* Numbers are <<n>>, NaN is <<>>.
NaN == <<>>

\* ToNumber of a boolean or of undefined
ToNumber(v) ==
    CASE v = "true" -> <<1>>
      [] v = "false" -> <<0>>
      [] OTHER -> NaN

\* x - y
Minus(x, y) == IF x = NaN \/ y = NaN THEN NaN ELSE <<x[1] - y[1]>>

Sign(n) == IF n < 0 THEN -1 ELSE IF n > 0 THEN 1 ELSE 0

\* -1, 0 or 1: the first position where x and y differ decides, else the
\* shorter one comes first
LexCompare(x, y) ==
    LET n == IF Len(x) < Len(y) THEN Len(x) ELSE Len(y)
        diffs == {i \in 1..n : x[i] # y[i]}
    IN  IF diffs = {}
        THEN Sign(Len(x) - Len(y))
        ELSE LET i == CHOOSE d \in diffs : \A e \in diffs : d <= e
             IN  IF x[i] < y[i] THEN -1 ELSE 1

\* Collation rank of a character: the space, then the letters
CollationRank(c) ==
    IF c = " " THEN 0
    ELSE CHOOSE i \in 1..Len(LowerLetters) : LowerLetters[i] = LowerChar(c)

\* String.prototype.localeCompare on names of letters and spaces: by
\* letters first, and lower case before upper case between equal letters
LocaleCompare(a, b) ==
    LET primary == LexCompare([i \in 1..Len(a) |-> CollationRank(a[i])],
                              [i \in 1..Len(b) |-> CollationRank(b[i])])
    IN  IF primary # 0
        THEN primary
        ELSE LexCompare([i \in 1..Len(a) |-> IF IsUpper(a[i]) THEN 1 ELSE 0],
                        [i \in 1..Len(b) |-> IF IsUpper(b[i]) THEN 1 ELSE 0])

\* Faulty variant: b.name.localeCompare(a.name).
comparefnDescending(mode, a, b) ==
    IF mode = "az" THEN <<LocaleCompare(b.name, a.name)>>
    ELSE IF mode = "popular"
    THEN Minus(ToNumber(b.popular), ToNumber(a.popular))
    ELSE <<0>>

\* Faulty variant: a.popular - b.popular.
comparefnAscending(mode, a, b) ==
    IF mode = "az" THEN <<LocaleCompare(a.name, b.name)>>
    ELSE IF mode = "popular"
    THEN Minus(ToNumber(a.popular), ToNumber(b.popular))
    ELSE <<0>>

\* The comparator passed to .sort
comparefn(mode, a, b) ==
    IF mode = "az" THEN <<LocaleCompare(a.name, b.name)>>
    ELSE IF mode = "popular"
    THEN Minus(ToNumber(b.popular), ToNumber(a.popular))
    ELSE <<0>>

\* What Array.prototype.sort makes of the comparator's result: NaN counts
\* as +0
SortCompare(mode, a, b) ==
    LET v == comparefn(mode, a, b) IN IF v = NaN THEN 0 ELSE v[1]

InsertAt(list, j, x) ==
    SubSeq(list, 1, j) \o <<x>> \o SubSeq(list, j + 1, Len(list))

Reverse(list) == [i \in 1..Len(list) |-> list[Len(list) + 1 - i]]

\* Engine 1, straight insertion: x moves left past every item it is less
\* than; the result is the number of items left before it.
RECURSIVE InsertionPlace(_, _, _, _)
InsertionPlace(mode, sorted, x, j) ==
    IF j > 0 /\ SortCompare(mode, x, sorted[j]) < 0
    THEN InsertionPlace(mode, sorted, x, j - 1)
    ELSE j

RECURSIVE InsertionSortFrom(_, _, _)
InsertionSortFrom(mode, list, i) ==
    IF i > Len(list) THEN list
    ELSE LET sorted == SubSeq(list, 1, i - 1)
             j == InsertionPlace(mode, sorted, list[i], i - 1)
         IN  InsertionSortFrom(mode,
                 InsertAt(sorted, j, list[i]) \o SubSeq(list, i + 1, Len(list)),
                 i + 1)

InsertionSort(mode, list) == InsertionSortFrom(mode, list, 2)

\* Engine 2, binary insertion after the leading run (the short-array path
\* of a TimSort): the run is the longest non-descending prefix, or the
\* longest strictly descending one, reversed.
RECURSIVE RunEnd(_, _, _, _)
RunEnd(mode, list, i, descending) ==
    IF i > Len(list) THEN i - 1
    ELSE LET order == SortCompare(mode, list[i], list[i - 1])
         IN  IF (descending /\ order >= 0) \/ (~descending /\ order < 0)
             THEN i - 1
             ELSE RunEnd(mode, list, i + 1, descending)

RECURSIVE BinaryPlace(_, _, _, _, _)
BinaryPlace(mode, sorted, x, left, right) ==
    IF left >= right THEN left
    ELSE LET mid == left + ((right - left) \div 2)
         IN  IF SortCompare(mode, x, sorted[mid + 1]) < 0
             THEN BinaryPlace(mode, sorted, x, left, mid)
             ELSE BinaryPlace(mode, sorted, x, mid + 1, right)

RECURSIVE BinaryInsertionFrom(_, _, _)
BinaryInsertionFrom(mode, list, i) ==
    IF i > Len(list) THEN list
    ELSE LET sorted == SubSeq(list, 1, i - 1)
             j == BinaryPlace(mode, sorted, list[i], 0, i - 1)
         IN  BinaryInsertionFrom(mode,
                 InsertAt(sorted, j, list[i]) \o SubSeq(list, i + 1, Len(list)),
                 i + 1)

BinaryInsertionSort(mode, list) ==
    IF Len(list) < 2 THEN list
    ELSE LET descending == SortCompare(mode, list[2], list[1]) < 0
             run == RunEnd(mode, list, 3, descending)
             head == SubSeq(list, 1, run)
             start == (IF descending THEN Reverse(head) ELSE head)
                          \o SubSeq(list, run + 1, Len(list))
         IN  BinaryInsertionFrom(mode, start, run + 1)

\* Engine 3, bottom-up merge sort: the right item is taken only when it is
\* less than the left one.
RECURSIVE Merge(_, _, _)
Merge(mode, l, r) ==
    IF Len(l) = 0 THEN r
    ELSE IF Len(r) = 0 THEN l
    ELSE IF SortCompare(mode, r[1], l[1]) < 0
    THEN <<r[1]>> \o Merge(mode, l, Tail(r))
    ELSE <<l[1]>> \o Merge(mode, Tail(l), r)

Least(a, b) == IF a < b THEN a ELSE b

RECURSIVE MergePass(_, _, _)
MergePass(mode, list, width) ==
    IF Len(list) <= width THEN list
    ELSE LET cut == Least(2 * width, Len(list))
         IN  Merge(mode, SubSeq(list, 1, width), SubSeq(list, width + 1, cut))
                 \o MergePass(mode, SubSeq(list, cut + 1, Len(list)), width)

RECURSIVE MergeSortFrom(_, _, _)
MergeSortFrom(mode, list, width) ==
    IF width >= Len(list) THEN list
    ELSE MergeSortFrom(mode, MergePass(mode, list, width), 2 * width)

MergeSort(mode, list) == MergeSortFrom(mode, list, 1)

\* The sorting procedures a JavaScript engine may run for .sort
Engines == {"insertion", "binaryInsertion", "merge"}

\* Array.prototype.sort(comparefn) as run by the given engine
ArraySort(engine, mode, list) ==
    CASE engine = "insertion" -> InsertionSort(mode, list)
      [] engine = "binaryInsertion" -> BinaryInsertionSort(mode, list)
      [] engine = "merge" -> MergeSort(mode, list)

\* Faulty variant: the popularity mode keeps the popular entries only.
filteredLettucesInPopularOnly(engine, mode) ==
    IF mode = "popular"
    THEN SelectSeq(FilterByQuery(lettuceArray, searchQuery),
                   LAMBDA item : item.popular = "true")
    ELSE ArraySort(engine, mode, FilterByQuery(lettuceArray, searchQuery))

\* filteredLettuces, as a render with filter = mode computes it from
\* searchQuery
filteredLettucesIn(engine, mode) ==
    ArraySort(engine, mode, FilterByQuery(lettuceArray, searchQuery))

\* filteredLettuces, as the render computes it from searchQuery and filter
filteredLettuces(engine) == filteredLettucesIn(engine, filter)

\* Faulty variant: originalLettuces.sort(...) orders the catalog itself.
ArrayAfterRenderSortedInPlace(engine, mode, query, array) ==
    ArraySort(engine, mode, array)

\* The catalog array after a render with the given query and mode: .filter
\* returns a new array and .sort orders that new array in place, so the
\* catalog array is as it was.
ArrayAfterRender(engine, mode, query, array) == array

\* Faulty variant: 'az' goes straight back to 'all'.
NextFilterSkipsPopular(mode) == IF mode = "all" THEN "az" ELSE "all"

\* handleFilterPress: the mode after the given one
NextFilter(mode) ==
    IF mode = "all" THEN "az" ELSE IF mode = "az" THEN "popular" ELSE "all"

(* ------------------------------------------------------------------ *)
(* Initial state                                                       *)
(* ------------------------------------------------------------------ *)

\* The metrics of the Insights screen: one sensor card and one modal each
Metrics == {"Temp", "Humidity", "Ph", "TDS", "Light", "Water"}

\* InsightsScreen: the useState defaults of the modal flags, the tooltip
\* flags, the readings on show in the modals and the preferences
InsightsInitial ==
    [showModal |-> [m \in Metrics |-> FALSE],
     showTooltip |-> [m \in Metrics |-> FALSE],
     currentReading |-> [m \in Metrics |-> NULL],
     humidityPref |-> "Medium", lightMode |-> "Auto", phMode |-> "Auto",
     isLightOn |-> FALSE, lightLevel |-> 2, pointerOver |-> "none"]

\* DashboardScreen: const slots
DashboardScreenSlots ==
    << [id |-> 1, hasPlant |-> TRUE,
        data |-> [temp |-> "22.5", humidity |-> "65", ph |-> "6.3",
                  imageUri |-> NULL]],
       [id |-> 2, hasPlant |-> FALSE],
       [id |-> 3, hasPlant |-> FALSE] >>

\* InsightsScreen: const slots
InsightsScreenSlots ==
    << [id |-> 1, hasPlant |-> TRUE,
        data |-> [temp |-> "22.5", humidity |-> "65", ph |-> "6.3",
                  TDS |-> "846.69", light |-> "2"]],
       [id |-> 2, hasPlant |-> FALSE],
       [id |-> 3, hasPlant |-> FALSE] >>

Init ==
    /\ platform \in Platforms
    /\ contextUsername = NULL
    /\ sessionWrites = 0
    /\ navStack = <<"Icon">>
    /\ alertOpen = "none"
    /\ loginUsername = ""
    /\ loginPassword = ""
    /\ remember = FALSE
    /\ suUsername = ""
    /\ email = <<>>
    /\ suPassword = ""
    /\ agree = FALSE
    /\ searchQuery = <<>>
    /\ filter = "all"
    /\ presses = 0
    /\ lettuceArray = originalLettuces
    /\ tab = "Home"
    /\ homeStack = <<"DashboardMain">>
    /\ profileUser = NULL
    /\ lettuce = NULL
    /\ dashboardSlots = DashboardScreenSlots
    /\ insightsSlots = InsightsScreenSlots
    /\ showModal = InsightsInitial.showModal
    /\ showTooltip = InsightsInitial.showTooltip
    /\ currentReading = InsightsInitial.currentReading
    /\ humidityPref = InsightsInitial.humidityPref
    /\ lightMode = InsightsInitial.lightMode
    /\ phMode = InsightsInitial.phMode
    /\ isLightOn = InsightsInitial.isLightOn
    /\ lightLevel = InsightsInitial.lightLevel
    /\ pointerOver = InsightsInitial.pointerOver
    /\ last = NoSubmission

(* ------------------------------------------------------------------ *)
(* Actions of the sign-in flow                                         *)
(* ------------------------------------------------------------------ *)

\* The forms' fields once the stack is ns: a screen that left the stack is
\* unmounted and starts from its useState defaults when shown again.
FormsAfter(ns) ==
    /\ loginUsername' = IF Mounted(ns, "Login") THEN loginUsername ELSE ""
    /\ loginPassword' = IF Mounted(ns, "Login") THEN loginPassword ELSE ""
    /\ remember' = IF Mounted(ns, "Login") THEN remember ELSE FALSE
    /\ suUsername' = IF Mounted(ns, "SignUp") THEN suUsername ELSE ""
    /\ email' = IF Mounted(ns, "SignUp") THEN email ELSE <<>>
    /\ suPassword' = IF Mounted(ns, "SignUp") THEN suPassword ELSE ""
    /\ agree' = IF Mounted(ns, "SignUp") THEN agree ELSE FALSE

\* The Dashboard route's screens (tabs, Home stack, Profile form, Insights
\* screen) and the LettuceDetail route's parameter as first rendered
DashboardFresh ==
    /\ tab' = "Home"
    /\ homeStack' = <<"DashboardMain">>
    /\ profileUser' = NULL
    /\ lettuce' = NULL
    /\ showModal' = InsightsInitial.showModal
    /\ showTooltip' = InsightsInitial.showTooltip
    /\ currentReading' = InsightsInitial.currentReading
    /\ humidityPref' = InsightsInitial.humidityPref
    /\ lightMode' = InsightsInitial.lightMode
    /\ phMode' = InsightsInitial.phMode
    /\ isLightOn' = InsightsInitial.isLightOn
    /\ lightLevel' = InsightsInitial.lightLevel
    /\ pointerOver' = InsightsInitial.pointerOver

\* The same once the stack is ns: they live while their route is in it.
DashboardAfter(ns) ==
    /\ tab' = IF Mounted(ns, "Dashboard") THEN tab ELSE "Home"
    /\ homeStack' = IF Mounted(ns, "Dashboard")
                    THEN homeStack ELSE <<"DashboardMain">>
    /\ profileUser' = IF Mounted(ns, "Dashboard") THEN profileUser ELSE NULL
    /\ lettuce' = IF Mounted(ns, "LettuceDetail") THEN lettuce ELSE NULL
    /\ showModal' = IF Mounted(ns, "Dashboard") THEN showModal
       ELSE InsightsInitial.showModal
    /\ showTooltip' = IF Mounted(ns, "Dashboard") THEN showTooltip
       ELSE InsightsInitial.showTooltip
    /\ currentReading' = IF Mounted(ns, "Dashboard") THEN currentReading
       ELSE InsightsInitial.currentReading
    /\ humidityPref' = IF Mounted(ns, "Dashboard") THEN humidityPref
       ELSE InsightsInitial.humidityPref
    /\ lightMode' = IF Mounted(ns, "Dashboard") THEN lightMode
       ELSE InsightsInitial.lightMode
    /\ phMode' = IF Mounted(ns, "Dashboard") THEN phMode
       ELSE InsightsInitial.phMode
    /\ isLightOn' = IF Mounted(ns, "Dashboard") THEN isLightOn
       ELSE InsightsInitial.isLightOn
    /\ lightLevel' = IF Mounted(ns, "Dashboard") THEN lightLevel
       ELSE InsightsInitial.lightLevel
    /\ pointerOver' = IF Mounted(ns, "Dashboard") THEN pointerOver
       ELSE InsightsInitial.pointerOver

ScreensAfter(ns) == FormsAfter(ns) /\ DashboardAfter(ns)

\* InsightsScreen: no <Modal> is visible
NoModal == \A m \in Metrics : ~showModal[m]

\* The screen of route `name` takes the presses: no alert dialog and no
\* modal covers it.
Focused(name) == TopRoute = name /\ alertOpen = "none" /\ NoModal

\* Faulty variant: the handler switches the flag on.
ToggleFlagSticky(value) == TRUE

\* !value, as the checkboxes and the native tooltip icons compute the flag's
\* next value
ToggleFlag(value) == ~value

\* IconScreen.handlePress
IconPress ==
    /\ Focused("Icon")
    /\ IF platform = "web"
       THEN /\ navStack' = Navigate(navStack, "Login")
            /\ alertOpen' = "none"
            /\ last' = Requested("Login")
       ELSE /\ navStack' = navStack
            /\ alertOpen' = "Lettuce Begin"
            /\ last' = NoSubmission
    /\ ScreensAfter(navStack')
    /\ UNCHANGED <<platform, contextUsername, sessionWrites, viewVars>>

\* The OK button of a native Alert dialog
AlertOK ==
    /\ alertOpen # "none"
    /\ alertOpen' = "none"
    /\ navStack' = IF AlertTarget(alertOpen) = "none"
                   THEN navStack
                   ELSE Navigate(navStack, AlertTarget(alertOpen))
    /\ ScreensAfter(navStack')
    /\ UNCHANGED <<platform, contextUsername, sessionWrites, last, viewVars>>

\* LoginScreen: onChangeText={setUsernameState}
LoginSetUsername(u) ==
    /\ Focused("Login")
    /\ loginUsername' = u
    /\ last' = NoSubmission
    /\ UNCHANGED <<platform, contextUsername, sessionWrites, navStack, alertOpen,
                   loginPassword, suUsername, email, suPassword, agree,
                   remember, dashVars, viewVars>>

\* LoginScreen: onChangeText={setPassword}
LoginSetPassword(p) ==
    /\ Focused("Login")
    /\ loginPassword' = p
    /\ last' = NoSubmission
    /\ UNCHANGED <<platform, contextUsername, sessionWrites, navStack, alertOpen,
                   loginUsername, suUsername, email, suPassword, agree,
                   remember, dashVars, viewVars>>

\* LoginScreen.handleLogin
HandleLogin ==
    /\ Focused("Login")
    /\ IF ~LoginValid(loginUsername, loginPassword)
       THEN /\ alertOpen' = AlertAfter("Login Error")
            /\ last' = Submission("login", "LoginError", loginUsername,
                                   <<>>, loginPassword, FALSE,
                                   <<"Login Error">>)
            /\ UNCHANGED <<contextUsername, sessionWrites, navStack,
                           loginUsername, loginPassword, suUsername, email,
                           suPassword, agree, remember,
                           dashVars>>
       ELSE /\ contextUsername' =
                   UserProviderSet(contextUsername, loginUsername)
            /\ sessionWrites' = Written(sessionWrites)
            /\ navStack' = ResetTo("Dashboard")
            /\ FormsAfter(navStack')
            /\ DashboardFresh
            /\ last' = [Submission("login", "LoginOK", loginUsername,
                                    <<>>, loginPassword, FALSE, <<>>)
                            EXCEPT !.route = "Dashboard"]
            /\ UNCHANGED alertOpen
    /\ UNCHANGED <<platform, viewVars>>

\* LoginScreen: the "Sign Up" link
LoginGoSignUp ==
    /\ Focused("Login")
    /\ navStack' = Navigate(navStack, "SignUp")
    /\ ScreensAfter(navStack')
    /\ last' = Requested("SignUp")
    /\ UNCHANGED <<platform, contextUsername, sessionWrites, alertOpen, viewVars>>

\* LoginScreen: CustomCheckBox onPress, onValueChange(!value) with
\* setRemember
LoginToggleRemember ==
    /\ Focused("Login")
    /\ remember' = ToggleFlag(remember)
    /\ last' = Toggled(<<"checkbox", "remember">>, remember)
    /\ UNCHANGED <<platform, contextUsername, sessionWrites, navStack,
                   alertOpen, loginUsername, loginPassword, suUsername, email,
                   suPassword, agree, dashVars, viewVars>>

\* SignUpScreen: onChangeText={setUsername}
SignUpSetUsername(u) ==
    /\ Focused("SignUp")
    /\ suUsername' = u
    /\ last' = NoSubmission
    /\ UNCHANGED <<platform, contextUsername, sessionWrites, navStack, alertOpen,
                   loginUsername, loginPassword, email, suPassword, agree,
                   remember, dashVars, viewVars>>

\* SignUpScreen: onChangeText={setEmail}
SignUpSetEmail(text) ==
    /\ Focused("SignUp")
    /\ email' = text
    /\ last' = NoSubmission
    /\ UNCHANGED <<platform, contextUsername, sessionWrites, navStack, alertOpen,
                   loginUsername, loginPassword, suUsername, suPassword,
                   agree, remember, dashVars, viewVars>>

\* SignUpScreen: onChangeText={setPassword}
SignUpSetPassword(p) ==
    /\ Focused("SignUp")
    /\ suPassword' = p
    /\ last' = NoSubmission
    /\ UNCHANGED <<platform, contextUsername, sessionWrites, navStack, alertOpen,
                   loginUsername, loginPassword, suUsername, email, agree,
                   remember, dashVars, viewVars>>

\* SignUpScreen: CustomCheckBox onPress, onValueChange(!value) with setAgree
SignUpToggleAgree ==
    /\ Focused("SignUp")
    /\ agree' = ToggleFlag(agree)
    /\ last' = NoSubmission
    /\ UNCHANGED <<platform, contextUsername, sessionWrites, navStack, alertOpen,
                   loginUsername, loginPassword, suUsername, email,
                   suPassword, remember, dashVars, viewVars>>

\* SignUpScreen.handleSignUp
HandleSignUp ==
    /\ Focused("SignUp")
    /\ LET outcome == SignUpOutcome(suUsername, email, suPassword, agree)
       IN  /\ last' = [Submission("signup", outcome, suUsername, email,
                                   suPassword, agree,
                                   <<SignUpAlertTitle(outcome)>>)
                           EXCEPT !.route =
                               IF outcome = "SignedUp" /\ platform = "web"
                               THEN "Dashboard" ELSE "none"]
           /\ IF outcome # "SignedUp"
              THEN /\ alertOpen' = AlertAfter(SignUpAlertTitle(outcome))
                   /\ UNCHANGED <<contextUsername, sessionWrites, navStack>>
              ELSE IF platform = "web"
              THEN /\ navStack' = Navigate(navStack, "Dashboard")
                   /\ UNCHANGED <<contextUsername, sessionWrites, alertOpen>>
              ELSE /\ contextUsername' =
                          UserProviderSet(contextUsername, suUsername)
                   /\ sessionWrites' = Written(sessionWrites)
                   /\ alertOpen' = SignUpAlertTitle(outcome)
                   /\ UNCHANGED navStack
    /\ ScreensAfter(navStack')
    /\ UNCHANGED <<platform, viewVars>>

\* SignUpScreen: the "Log in" link
SignUpGoLogin ==
    /\ Focused("SignUp")
    /\ navStack' = Navigate(navStack, "Login")
    /\ ScreensAfter(navStack')
    /\ last' = Requested("Login")
    /\ UNCHANGED <<platform, contextUsername, sessionWrites, alertOpen, viewVars>>

(* ------------------------------------------------------------------ *)
(* Actions of the Dashboard route                                      *)
(* ------------------------------------------------------------------ *)

\* WebNavbar: NAV_ITEMS
NAV_ITEMS ==
    << [label |-> "Home", route |-> "DashboardMain"],
       [label |-> "Search", route |-> "Search"],
       [label |-> "Insights", route |-> "Insights"],
       [label |-> "Profile", route |-> "Profile"],
       [label |-> "Logout", route |-> "Icon"] >>

Truthy(v) == v # NULL /\ v # ""

\* WebNavbar: paramUsername ?? contextUsername ?? 'User'. A route of the
\* Dashboard has a username parameter only when this navbar wrote it, from
\* this same expression.
displayUsername == IF contextUsername # NULL THEN contextUsername ELSE "User"

\* ProfileScreen: useState(routeUsername || contextUsername || '')
ProfileInitialUser(routeUsername) ==
    IF Truthy(routeUsername) THEN routeUsername
    ELSE IF Truthy(contextUsername) THEN contextUsername
    ELSE ""

\* The Profile form once tab t is focused: a tab's screen is rendered when
\* the tab is first focused and keeps its state from then on.
ProfileAfterFocus(t, routeUsername) ==
    IF t = "Profile" /\ profileUser = NULL
    THEN ProfileInitialUser(routeUsername)
    ELSE profileUser

\* The screen on show inside the Dashboard route
DashboardScreenShown ==
    IF tab = "Home" THEN homeStack[Len(homeStack)] ELSE tab

\* Faulty variant: logging out clears the session.
SessionAfterLogoutCleared(session) == NULL

\* The session after Logout: both navbars navigate to 'Icon' and never call
\* setUsername.
SessionAfterLogout(session) == session

\* A press on the tab bar (hidden on web): the tab is focused; a press on
\* the focused Home tab pops its stack to the first route.
TabPress(t) ==
    /\ platform = "native"
    /\ Focused("Dashboard")
    /\ tab' = t
    /\ homeStack' = IF t = "Home" /\ tab = "Home"
                    THEN <<"DashboardMain">> ELSE homeStack
    /\ profileUser' = ProfileAfterFocus(t, NULL)
    /\ last' = NoSubmission
    /\ UNCHANGED <<platform, contextUsername, sessionWrites, navStack,
                   alertOpen, formVars, lettuce, insVars, viewVars>>

\* WebNavbar: onPress of a navigation item
WebNavPress(item) ==
    /\ platform = "web"
    /\ Focused("Dashboard")
    /\ IF item.label = "Logout"
       THEN /\ navStack' = Navigate(navStack, item.route)
            /\ ScreensAfter(navStack')
            /\ contextUsername' = SessionAfterLogout(contextUsername)
       ELSE /\ tab' = IF item.route = "DashboardMain"
                      THEN "Home" ELSE item.route
            /\ homeStack' = IF item.route = "DashboardMain"
                            THEN <<"DashboardMain">> ELSE homeStack
            /\ profileUser' = ProfileAfterFocus(item.route, displayUsername)
            /\ UNCHANGED <<contextUsername, navStack, formVars, lettuce,
                           insVars>>
    /\ last' = Requested(item.route)
    /\ UNCHANGED <<platform, sessionWrites, alertOpen, viewVars>>

\* TopNavbar (native): the logout button, navigation.navigate('Icon')
TopNavLogout ==
    /\ platform = "native"
    /\ alertOpen = "none"
    /\ NoModal
    /\ TopRoute \in {"Dashboard", "LettuceDetail"}
    /\ navStack' = Navigate(navStack, "Icon")
    /\ ScreensAfter(navStack')
    /\ contextUsername' = SessionAfterLogout(contextUsername)
    /\ last' = Requested("Icon")
    /\ UNCHANGED <<platform, sessionWrites, alertOpen, viewVars>>

\* DashboardScreen: the insight icon of a planted slot,
\* navigation.navigate('Insight', { slotId })
InsightIconPress(slot) ==
    /\ Focused("Dashboard")
    /\ DashboardScreenShown = "DashboardMain"
    /\ slot.hasPlant
    /\ homeStack' = Append(homeStack, "Insight")
    /\ last' = Requested("Insight")
    /\ UNCHANGED <<platform, contextUsername, sessionWrites, navStack,
                   alertOpen, formVars, tab, profileUser, lettuce, insVars,
                   viewVars>>

\* DashboardScreen and InsightsScreen: "+ Add" of an empty slot,
\* navigation.navigate('Dashboard', { screen: 'Search' })
AddPress(slot) ==
    /\ Focused("Dashboard")
    /\ DashboardScreenShown \in {"DashboardMain", "Insight", "Insights"}
    /\ ~slot.hasPlant
    /\ tab' = "Search"
    /\ last' = Requested("Dashboard")
    /\ UNCHANGED <<platform, contextUsername, sessionWrites, navStack,
                   alertOpen, formVars, homeStack, profileUser, lettuce,
                   insVars, viewVars>>

\* Faulty variant: every card hands over the Butterhead record, whose care
\* texts the handler carries for every lettuce.
RouteLettuceButterhead(item) ==
    [name |-> originalLettuces[2].name, image |-> originalLettuces[2].image,
     scientificName |-> "Lactuca sativa var. capitata"]

\* SelectionScreen.renderItem: the lettuce parameter of the LettuceDetail
\* route, built from the pressed item (the other fields are the same for
\* every item)
RouteLettuce(item) ==
    [name |-> item.name, image |-> item.image,
     scientificName |-> "Lactuca sativa var. capitata"]

\* SelectionScreen.renderItem: onPress of the i-th card on show
CardPress(engine, i) ==
    /\ Focused("Dashboard")
    /\ tab = "Search"
    /\ LET shown == filteredLettuces(engine)
       IN  /\ i <= Len(shown)
           /\ IF shown[i].placeholder = "true"
              THEN /\ alertOpen' = AlertAfter("Notice")
                   /\ last' = Pressed(shown[i], <<"Notice">>)
                   /\ UNCHANGED <<navStack, lettuce>>
              ELSE /\ navStack' = Navigate(navStack, "LettuceDetail")
                   /\ lettuce' = RouteLettuce(shown[i])
                   /\ last' = [Pressed(shown[i], <<>>)
                               EXCEPT !.route = "LettuceDetail"]
                   /\ UNCHANGED alertOpen
    /\ UNCHANGED <<platform, contextUsername, sessionWrites, formVars, tab,
                   homeStack, profileUser, insVars, viewVars>>

\* Faulty variant: the lettuce is planted in the first empty slot.
SlotsAfterAddPlanted(slotList, id) ==
    IF \E i \in 1..Len(slotList) : ~slotList[i].hasPlant
    THEN LET first == CHOOSE i \in 1..Len(slotList) :
                          /\ ~slotList[i].hasPlant
                          /\ \A j \in 1..(i - 1) : slotList[j].hasPlant
         IN  [slotList EXCEPT ![first] =
                  [id |-> slotList[first].id, hasPlant |-> TRUE,
                   data |-> slotList[1].data]]
    ELSE slotList

\* A screen's slots after the add button of the detail screen: the handler
\* shows an alert and does nothing else.
SlotsAfterAdd(slotList, id) == slotList

\* The names registered in the navigators: the root stack, the tabs of the
\* Dashboard route and the stack of the Home tab
RegisteredRoutes ==
    {"Icon", "Login", "SignUp", "Dashboard", "LettuceDetail", "Insight"}
        \cup {"Home", "Search", "Insights", "Profile"}
        \cup {"DashboardMain", "Insight"}

\* LettuceModal (web): onRequestClose of the modal,
\* navigation.navigate('SelectionScreen'). No navigator has a route of that
\* name, so the action is handled by none and the navigation state stays.
LettuceModalRequestClose ==
    /\ platform = "web"
    /\ Focused("LettuceDetail")
    /\ last' = Requested("SelectionScreen")
    /\ UNCHANGED <<platform, contextUsername, sessionWrites, navStack,
                   alertOpen, formVars, dashVars, viewVars>>

\* LettuceDetailScreen / LettuceModal: the add button ("Lettuce added!")
AddLettuce ==
    /\ Focused("LettuceDetail")
    /\ alertOpen' = AlertAfter("Success")
    /\ dashboardSlots' = SlotsAfterAdd(dashboardSlots, lettuce)
    /\ insightsSlots' = SlotsAfterAdd(insightsSlots, lettuce)
    /\ last' = NoSubmission
    /\ UNCHANGED <<platform, contextUsername, sessionWrites, navStack,
                   formVars, dashVars, selVars>>

\* ProfileScreen: onChangeText={setUser}
ProfileSetUser(u) ==
    /\ Focused("Dashboard")
    /\ tab = "Profile"
    /\ profileUser' = u
    /\ last' = NoSubmission
    /\ UNCHANGED <<platform, contextUsername, sessionWrites, navStack,
                   alertOpen, formVars, tab, homeStack, lettuce, insVars,
                   viewVars>>

\* Faulty variant: Save Changes hands the form's name to setUsername.
SessionAfterSaveWritten(session, user) == user

\* The session after Save Changes: the handler never calls setUsername.
SessionAfterSave(session, user) == session

\* ProfileScreen: the Save Changes button
ProfileSave ==
    /\ Focused("Dashboard")
    /\ tab = "Profile"
    /\ alertOpen' = AlertAfter("Profile Updated")
    /\ contextUsername' = SessionAfterSave(contextUsername, profileUser)
    /\ last' = NoSubmission
    /\ UNCHANGED <<platform, sessionWrites, navStack, formVars, dashVars,
                   viewVars>>

\* Back (hardware button, swipe or browser): the Home tab's stack pops its
\* focused route, another tab goes back to the first tab, otherwise the root
\* stack pops its focused route. Over a modal, Back is the modal's
\* onRequestClose (ModalClose).
GoBack ==
    /\ alertOpen = "none"
    /\ NoModal
    /\ IF TopRoute = "Dashboard" /\ tab = "Home" /\ Len(homeStack) > 1
       THEN /\ homeStack' = SubSeq(homeStack, 1, Len(homeStack) - 1)
            /\ UNCHANGED <<navStack, formVars, tab, profileUser, lettuce,
                           insVars>>
       ELSE IF TopRoute = "Dashboard" /\ tab # "Home"
       THEN /\ tab' = "Home"
            /\ UNCHANGED <<navStack, formVars, homeStack, profileUser,
                           lettuce, insVars>>
       ELSE /\ Len(navStack) > 1
            /\ navStack' = SubSeq(navStack, 1, Len(navStack) - 1)
            /\ ScreensAfter(navStack')
    /\ last' = NoSubmission
    /\ UNCHANGED <<platform, contextUsername, sessionWrites, alertOpen,
                   viewVars>>

(* ------------------------------------------------------------------ *)
(* Actions of the Insights screen                                      *)
(* ------------------------------------------------------------------ *)

\* The Insights tab renders InsightsScreen. The Insight route of the Home
\* stack renders another instance of the same component, with state of its
\* own that is not followed here.
InsightsShown == TopRoute = "Dashboard" /\ DashboardScreenShown = "Insights"

\* The modal of metric m is on show and takes the presses.
InModal(m) == InsightsShown /\ alertOpen = "none" /\ showModal[m]

\* What the Insights actions leave alone besides the screen's own state
notInsVars == <<platform, contextUsername, sessionWrites, navStack, formVars,
                tab, homeStack, profileUser, lettuce, viewVars>>

\* The manual light controls' state
lightVars == <<isLightOn, lightLevel>>

\* InsightsScreen: the modes on offer in the light and pH modals
Modes == <<"Auto", "Schedule", "Manual">>

\* InsightsScreen: the value a sensor card hands to setCurrent<Metric>
Reading(slot, m) ==
    CASE m = "Temp" -> slot.data.temp
      [] m = "Humidity" -> slot.data.humidity
      [] m = "Ph" -> slot.data.ph
      [] m = "TDS" -> IF "TDS" \in DOMAIN slot.data
                      THEN slot.data.TDS ELSE "846.69"
      [] m = "Light" -> slot.data.light
      [] m = "Water" -> "60"

\* InsightsScreen: humidityPref === 'Low' ? '5.0 L' : humidityPref ===
\* 'Medium' ? '6.5 L' : '8.0 L'
WaterLabel(pref) ==
    IF pref = "Low" THEN "5.0 L"
    ELSE IF pref = "Medium" THEN "6.5 L"
    ELSE "8.0 L"

\* InsightsScreen: the text of the sensor card of metric m in a planted slot
SensorCardText(slot, m) ==
    IF m = "Water"
    THEN IF platform = "web" THEN WaterLabel(humidityPref) ELSE "6.5 L"
    ELSE Reading(slot, m)

\* InsightsScreen: what the modal of metric m shows
ModalContent(m) ==
    [reading |-> IF m = "Water" THEN WaterLabel(humidityPref)
                 ELSE currentReading[m],
     tooltip |-> showTooltip[m],
     preference |-> CASE m = "Water" -> humidityPref
                      [] m = "Light" -> lightMode
                      [] m = "Ph" -> phMode
                      [] OTHER -> NULL]

\* Everything InsightsScreen renders outside the modal of metric m: the
\* sensor cards of the planted slots and the other modals
OutsideModal(m) ==
    [cards |-> [i \in 1..Len(insightsSlots) |->
                   IF insightsSlots[i].hasPlant
                   THEN [x \in Metrics |->
                            SensorCardText(insightsSlots[i], x)]
                   ELSE "+ Add"],
     modals |-> [x \in Metrics \ {m} |->
                    IF showModal[x] THEN ModalContent(x) ELSE "hidden"]]

\* Faulty variant: opening a modal hides the tooltips left on show.
TooltipsAfterOpenAllHidden(tooltips, m) == [x \in Metrics |-> FALSE]

\* The tooltip flags after the sensor card of metric m is pressed: the
\* handler writes the metric's reading and modal flag and nothing else.
TooltipsAfterOpen(tooltips, m) == tooltips

\* Faulty variant: the press shows the modal without assigning the value.
CurrentAfterPressKept(readings, slot, m) == readings

\* setCurrent<Metric>(...) of the sensor card of metric m
CurrentAfterPress(readings, slot, m) ==
    [readings EXCEPT ![m] = Reading(slot, m)]

\* InsightsScreen: onPress of the sensor card of metric m in a planted slot
SensorCardPress(slot, m) ==
    /\ Focused("Dashboard")
    /\ DashboardScreenShown = "Insights"
    /\ slot.hasPlant
    /\ currentReading' = CurrentAfterPress(currentReading, slot, m)
    /\ showModal' = [showModal EXCEPT ![m] = TRUE]
    /\ showTooltip' = TooltipsAfterOpen(showTooltip, m)
    /\ last' = Toggled(<<"modal", m>>, showModal[m])
    /\ UNCHANGED <<notInsVars, alertOpen, lightVars, pointerOver, humidityPref, lightMode, phMode>>

\* Faulty variant: closing the modal of m hides its tooltip.
TooltipsAfterCloseHidden(tooltips, m) == [tooltips EXCEPT ![m] = FALSE]

\* The tooltip flags after the modal of m is closed: the close handlers
\* call setShow<Metric>Modal(false) and no other setter.
TooltipsAfterClose(tooltips, m) == tooltips

\* InsightsScreen: the Done button and onRequestClose of the modal of m.
\* onRequestClose (Escape on web) can come with the pointer over the info
\* icon; the icon leaves the screen with the modal and no onMouseLeave
\* follows.
ModalClose(m) ==
    /\ InModal(m)
    /\ showModal' = [showModal EXCEPT ![m] = FALSE]
    /\ showTooltip' = TooltipsAfterClose(showTooltip, m)
    /\ pointerOver' = "none"
    /\ last' = Toggled(<<"modal", m>>, showModal[m])
    /\ UNCHANGED <<notInsVars, alertOpen, lightVars, currentReading,
                   humidityPref, lightMode, phMode>>

\* InsightsScreen: onPress of the info icon in the modal of m,
\* if (Platform.OS !== 'web') setShow<Metric>Tooltip(!show<Metric>Tooltip)
TooltipPress(m) ==
    /\ InModal(m)
    /\ IF platform # "web"
       THEN /\ showTooltip' =
                   [showTooltip EXCEPT ![m] = ToggleFlag(showTooltip[m])]
            /\ last' = Toggled(<<"tooltip", m>>, showTooltip[m])
       ELSE /\ last' = NoSubmission
            /\ UNCHANGED showTooltip
    /\ UNCHANGED <<notInsVars, alertOpen, lightVars, pointerOver, showModal, currentReading,
                   humidityPref, lightMode, phMode>>

\* InsightsScreen: onMouseEnter (shown = TRUE) and onMouseLeave (shown =
\* FALSE) of the info icon, Platform.OS === 'web' && setShow<Metric>Tooltip.
\* The pointer enters an icon it is not over and leaves the one it is over.
TooltipMouse(m, shown) ==
    /\ InModal(m)
    /\ platform = "web"
    /\ pointerOver = IF shown THEN "none" ELSE m
    /\ pointerOver' = IF shown THEN m ELSE "none"
    /\ showTooltip' = [showTooltip EXCEPT ![m] = shown]
    /\ last' = NoSubmission
    /\ UNCHANGED <<notInsVars, alertOpen, lightVars, showModal, currentReading,
                   humidityPref, lightMode, phMode>>

\* InsightsScreen: the Slider's onValueChange in the water modal
WaterSliderChange(value) ==
    /\ InModal("Water")
    /\ humidityPref' = IF value = 0 THEN "Low"
                       ELSE IF value = 1 THEN "Medium"
                       ELSE "High"
    /\ last' = NoSubmission
    /\ UNCHANGED <<notInsVars, alertOpen, lightVars, pointerOver, showModal, showTooltip,
                   currentReading, lightMode, phMode>>

\* InsightsScreen: onPress of a mode button in the light modal
SetLightMode(mode) ==
    /\ InModal("Light")
    /\ lightMode' = mode
    /\ last' = NoSubmission
    /\ UNCHANGED <<notInsVars, alertOpen, lightVars, pointerOver, showModal, showTooltip,
                   currentReading, humidityPref, phMode>>

\* InsightsScreen: onPress of a mode button in the pH modal
SetPhMode(mode) ==
    /\ InModal("Ph")
    /\ phMode' = mode
    /\ last' = NoSubmission
    /\ UNCHANGED <<notInsVars, alertOpen, lightVars, pointerOver, showModal, showTooltip,
                   currentReading, humidityPref, lightMode>>

\* InsightsScreen (DashboardTabs.js): the manual light controls are rendered
\* in the light modal while lightMode === 'Manual'
ManualControlsShown == InModal("Light") /\ lightMode = "Manual"

\* InsightsScreen (DashboardTabs.js): onPress of the ON button (value =
\* TRUE) and of the OFF button (value = FALSE), setIsLightOn(value)
SetIsLightOn(value) ==
    /\ ManualControlsShown
    /\ isLightOn' = value
    /\ last' = NoSubmission
    /\ UNCHANGED <<notInsVars, alertOpen, pointerOver, showModal, showTooltip,
                   currentReading, humidityPref, lightMode, phMode,
                   lightLevel>>

\* Faulty variant: the minus button is never disabled.
MinusDisabledNever(lvl) == FALSE

\* disabled={lightLevel <= 0} of the minus button
MinusDisabled(lvl) == lvl <= 0

\* disabled={lightLevel >= 10} of the plus button
PlusDisabled(lvl) == lvl >= 10

\* Math.max(lvl - 1, 0)
LevelAfterMinus(lvl) == IF lvl - 1 > 0 THEN lvl - 1 ELSE 0

\* Math.min(lvl + 1, 10)
LevelAfterPlus(lvl) == IF lvl + 1 < 10 THEN lvl + 1 ELSE 10

\* InsightsScreen (DashboardTabs.js): onPress of the minus button,
\* setLightLevel(lvl => Math.max(lvl - 1, 0))
LightLevelMinus ==
    /\ ManualControlsShown
    /\ ~MinusDisabled(lightLevel)
    /\ lightLevel' = LevelAfterMinus(lightLevel)
    /\ last' = NoSubmission
    /\ UNCHANGED <<notInsVars, alertOpen, pointerOver, showModal, showTooltip,
                   currentReading, humidityPref, lightMode, phMode,
                   isLightOn>>

\* InsightsScreen (DashboardTabs.js): onPress of the plus button,
\* setLightLevel(lvl => Math.min(lvl + 1, 10))
LightLevelPlus ==
    /\ ManualControlsShown
    /\ ~PlusDisabled(lightLevel)
    /\ lightLevel' = LevelAfterPlus(lightLevel)
    /\ last' = NoSubmission
    /\ UNCHANGED <<notInsVars, alertOpen, pointerOver, showModal, showTooltip,
                   currentReading, humidityPref, lightMode, phMode,
                   isLightOn>>

\* InsightsScreen: the Dispense Nutrients button of the TDS modal
DispenseNutrients ==
    /\ InModal("TDS")
    /\ alertOpen' = AlertAfter("Notice")
    /\ last' = NoSubmission
    /\ UNCHANGED <<notInsVars, insVars>>

Next ==
    \/ IconPress
    \/ AlertOK
    \/ \E u \in Usernames : LoginSetUsername(u)
    \/ \E p \in Passwords : LoginSetPassword(p)
    \/ HandleLogin
    \/ LoginGoSignUp
    \/ \E u \in Usernames : SignUpSetUsername(u)
    \/ \E text \in EmailSamples : SignUpSetEmail(text)
    \/ \E p \in Passwords : SignUpSetPassword(p)
    \/ SignUpToggleAgree
    \/ HandleSignUp
    \/ SignUpGoLogin
    \/ GoBack

Spec == Init /\ [][Next]_vars

\* The sign-up flow alone, the e-mail field typed key by key: every text of
\* at most MaxEmailLen characters over EmailChars is submitted.
NextSignUp ==
    \/ IconPress
    \/ AlertOK
    \/ LoginGoSignUp
    \/ \E u \in Usernames : SignUpSetUsername(u)
    \/ \E text \in Keystrokes(email, EmailChars, MaxEmailLen) :
            SignUpSetEmail(text)
    \/ \E p \in Passwords : SignUpSetPassword(p)
    \/ SignUpToggleAgree
    \/ HandleSignUp
    \/ SignUpGoLogin
    \/ GoBack

SpecSignUp == Init /\ [][NextSignUp]_vars

\* The whole application: the sign-in flow with an empty or a well-formed
\* e-mail, and the screens of the Dashboard route.
AppEmails == { <<>>, <<"a", "@", "a", ".", "a">> }

NextApp ==
    \/ IconPress
    \/ AlertOK
    \/ \E u \in Usernames : LoginSetUsername(u)
    \/ \E p \in Passwords : LoginSetPassword(p)
    \/ HandleLogin
    \/ LoginGoSignUp
    \/ \E u \in Usernames : SignUpSetUsername(u)
    \/ \E text \in AppEmails : SignUpSetEmail(text)
    \/ \E p \in Passwords : SignUpSetPassword(p)
    \/ SignUpToggleAgree
    \/ HandleSignUp
    \/ SignUpGoLogin
    \/ GoBack
    \/ \E t \in {"Home", "Search", "Insights", "Profile"} : TabPress(t)
    \/ \E i \in 1..Len(NAV_ITEMS) : WebNavPress(NAV_ITEMS[i])
    \/ TopNavLogout
    \/ \E i \in 1..Len(dashboardSlots) : InsightIconPress(dashboardSlots[i])
    \/ \E i \in 1..Len(dashboardSlots) : AddPress(dashboardSlots[i])
    \/ \E e \in Engines : \E i \in 1..Len(lettuceArray) : CardPress(e, i)
    \/ LettuceModalRequestClose
    \/ AddLettuce
    \/ \E u \in Usernames : ProfileSetUser(u)
    \/ ProfileSave

SpecApp == Init /\ [][NextApp]_vars

\* The Insights screen: one user signs in and opens the Insights tab.
InsightsUsers == {"amy"}

NextInsights ==
    \/ IconPress
    \/ AlertOK
    \/ \E u \in InsightsUsers : LoginSetUsername(u)
    \/ \E p \in Passwords \ {""} : LoginSetPassword(p)
    \/ LoginToggleRemember
    \/ HandleLogin
    \/ TabPress("Insights")
    \/ WebNavPress(NAV_ITEMS[3])
    \/ \E i \in 1..Len(insightsSlots), m \in Metrics :
            SensorCardPress(insightsSlots[i], m)
    \/ \E m \in Metrics : ModalClose(m)
    \/ \E m \in Metrics : TooltipPress(m)
    \/ \E m \in Metrics, shown \in BOOLEAN : TooltipMouse(m, shown)
    \/ \E value \in 0..2 : WaterSliderChange(value)
    \/ \E i \in 1..Len(Modes) : SetLightMode(Modes[i])
    \/ \E i \in 1..Len(Modes) : SetPhMode(Modes[i])
    \/ DispenseNutrients

SpecInsights == Init /\ [][NextInsights]_vars

\* The Insights screen with the manual light controls: the modals of three
\* metrics, with everything their controls can do.
ControlMetrics == {"Temp", "Light", "Water"}

NextControls ==
    \/ IconPress
    \/ AlertOK
    \/ \E u \in InsightsUsers : LoginSetUsername(u)
    \/ \E p \in Passwords \ {""} : LoginSetPassword(p)
    \/ HandleLogin
    \/ TabPress("Insights")
    \/ WebNavPress(NAV_ITEMS[3])
    \/ \E i \in 1..Len(insightsSlots), m \in ControlMetrics :
            SensorCardPress(insightsSlots[i], m)
    \/ \E m \in ControlMetrics : ModalClose(m)
    \/ \E m \in ControlMetrics : TooltipPress(m)
    \/ \E m \in ControlMetrics, shown \in BOOLEAN : TooltipMouse(m, shown)
    \/ \E value \in 0..2 : WaterSliderChange(value)
    \/ \E i \in 1..Len(Modes) : SetLightMode(Modes[i])
    \/ \E value \in BOOLEAN : SetIsLightOn(value)
    \/ LightLevelMinus
    \/ LightLevelPlus

SpecControls == Init /\ [][NextControls]_vars

\* A consumer of UserContext calls setUsername(name)
SetUsername(name) ==
    /\ contextUsername' = UserProviderSet(contextUsername, name)
    /\ sessionWrites' = Written(sessionWrites)
    /\ last' = Submission("set", "Set", name, <<>>, "", FALSE, <<>>)
    /\ UNCHANGED <<platform, navStack, alertOpen, formVars, dashVars,
                   viewVars>>

\* The holder under any sequence of setUsername calls, with the Login form
\* as one of its callers.
NextHolder ==
    \/ \E name \in Usernames : SetUsername(name)
    \/ IconPress
    \/ AlertOK
    \/ \E u \in Usernames : LoginSetUsername(u)
    \/ \E p \in Passwords : LoginSetPassword(p)
    \/ HandleLogin

SpecHolder == Init /\ [][NextHolder]_vars

(* ------------------------------------------------------------------ *)
(* Actions of the Selection screen                                     *)
(* ------------------------------------------------------------------ *)

\* The Selection screen is the Search tab of the Dashboard route: the state
\* after a successful login.
InitSel ==
    /\ platform \in Platforms
    /\ contextUsername \in Usernames \ {""}
    /\ sessionWrites = 1
    /\ navStack = <<"Dashboard">>
    /\ alertOpen = "none"
    /\ loginUsername = ""
    /\ loginPassword = ""
    /\ remember = FALSE
    /\ suUsername = ""
    /\ email = <<>>
    /\ suPassword = ""
    /\ agree = FALSE
    /\ searchQuery = <<>>
    /\ filter = "all"
    /\ presses = 0
    /\ lettuceArray = originalLettuces
    /\ tab = "Search"
    /\ homeStack = <<"DashboardMain">>
    /\ profileUser = NULL
    /\ lettuce = NULL
    /\ dashboardSlots = DashboardScreenSlots
    /\ insightsSlots = InsightsScreenSlots
    /\ showModal = InsightsInitial.showModal
    /\ showTooltip = InsightsInitial.showTooltip
    /\ currentReading = InsightsInitial.currentReading
    /\ humidityPref = InsightsInitial.humidityPref
    /\ lightMode = InsightsInitial.lightMode
    /\ phMode = InsightsInitial.phMode
    /\ isLightOn = InsightsInitial.isLightOn
    /\ lightLevel = InsightsInitial.lightLevel
    /\ pointerOver = InsightsInitial.pointerOver
    /\ last = NoSubmission

\* SelectionScreen: onChangeText={setSearchQuery}
SetSearchQuery(text) ==
    /\ Focused("Dashboard")
    /\ tab = "Search"
    /\ searchQuery' = text
    /\ \E e \in Engines :
           lettuceArray' = ArrayAfterRender(e, filter, text, lettuceArray)
    /\ UNCHANGED <<authVars, dashVars, slotVars, filter, presses>>

\* SelectionScreen.handleFilterPress
HandleFilterPress ==
    /\ Focused("Dashboard")
    /\ tab = "Search"
    /\ presses < MaxPresses
    /\ filter' = NextFilter(filter)
    /\ presses' = presses + 1
    /\ \E e \in Engines :
           lettuceArray' =
               ArrayAfterRender(e, filter', searchQuery, lettuceArray)
    /\ UNCHANGED <<authVars, dashVars, slotVars, searchQuery>>

NextSel ==
    \/ \E text \in Keystrokes(searchQuery, QueryChars, MaxQueryLen) :
            SetSearchQuery(text)
    \/ HandleFilterPress

SpecSel == InitSel /\ [][NextSel]_vars

\* The Selection screen with its cards pressed: a query is typed, the filter
\* button pressed, a card pressed, and the detail screen left again.
PickQueries ==
    { <<>>, <<"o">>, <<"a">>, <<"O", "a", "k">>, <<"k", "k">> }

NextPick ==
    \/ \E text \in PickQueries : SetSearchQuery(text)
    \/ HandleFilterPress
    \/ \E e \in Engines : \E i \in 1..Len(lettuceArray) : CardPress(e, i)
    \/ LettuceModalRequestClose
    \/ AlertOK
    \/ GoBack

SpecPick == InitSel /\ [][NextPick]_vars

\* Names of the items of a list, in order
Names(list) == [i \in 1..Len(list) |-> list[i].name]

\* Ids of the items of a list, in order
Ids(list) == [i \in 1..Len(list) |-> list[i].id]

(* ------------------------------------------------------------------ *)
(* Properties of the Login and SignUp forms                            *)
(* ------------------------------------------------------------------ *)

\* The last submission left the session and the stack as they were.
SessionAndStackUnchanged ==
    contextUsername = last.session0 /\ navStack = last.stack0

\* The last sign-up submission had all three text fields filled in.
SignUpFieldsFilled ==
    last.username # "" /\ Len(last.email) > 0 /\ last.password # ""

NoWhitespace(t) == \A j \in 1..Len(t) : t[j] \notin WhitespaceChars

\* A '.' with at least one character on each side
DotInside(t) == \E k \in 2..(Len(t) - 1) : t[k] = "."

\* X@Y.Z read literally: exactly one '@', a non-empty local part without
\* whitespace, a domain with a '.' that has characters on both sides.
ShapeAsClaimed(s) ==
    /\ Cardinality({i \in 1..Len(s) : s[i] = "@"}) = 1
    /\ LET at == CHOOSE i \in 1..Len(s) : s[i] = "@"
           localPart == SubSeq(s, 1, at - 1)
           domain == SubSeq(s, at + 1, Len(s))
       IN  /\ Len(localPart) > 0
           /\ NoWhitespace(localPart)
           /\ DotInside(domain)

\* X@Y.Z with the domain, like the local part, free of whitespace.
ShapeXYZ(s) ==
    /\ ShapeAsClaimed(s)
    /\ NoWhitespace(s)

\* C1: a login submitted with a non-empty username and a non-empty password
\* succeeds: the session username is the submitted one and the stack is the
\* single route Dashboard.
LoginSucceeds ==
    (last.op = "login" /\ last.username # "" /\ last.password # "")
        => /\ last.outcome = "LoginOK"
           /\ contextUsername = last.username
           /\ navStack = <<"Dashboard">>

\* A login as bob that replaced the session amy of an earlier sign-up.
LoginSucceedsWitness ==
    /\ last.op = "login"
    /\ last.username = "bob"
    /\ last.password = "pw"
    /\ last.session0 = "amy"
    /\ contextUsername = "bob"
    /\ TopRoute = "Dashboard"

\* C2: once a sign-up with filled fields, a matching e-mail and the terms
\* agreed is through (its alert closed), the session username is the
\* submitted one and the focused route is Dashboard, on web and on native.
SignUpSetsSessionEverywhere ==
    (/\ last.op = "signup"
     /\ SignUpFieldsFilled
     /\ ShapeXYZ(last.email)
     /\ last.agree
     /\ alertOpen = "none")
        => /\ contextUsername = last.username
           /\ TopRoute = "Dashboard"

\* C3: a sign-up with an empty username, e-mail or password ends in
\* MissingField and leaves the session and the stack as they were, whatever
\* agree and the e-mail are.
SignUpMissingField ==
    (last.op = "signup" /\ ~SignUpFieldsFilled)
        => /\ last.outcome = "MissingField"
           /\ SessionAndStackUnchanged

\* Only the password is missing, the e-mail matches and the terms are
\* agreed; the session of an earlier sign-up is still there.
SignUpMissingFieldWitness ==
    /\ last.op = "signup"
    /\ last.username = "amy"
    /\ last.password = ""
    /\ ShapeXYZ(last.email)
    /\ last.agree
    /\ last.outcome = "MissingField"
    /\ last.session0 = "bob"
    /\ contextUsername = "bob"

\* C4 as stated: with the fields filled, the e-mails not of the shape read
\* literally end in InvalidEmail without touching session or stack, and
\* every e-mail of that shape passes the rule.
SignUpInvalidEmailAsClaimed ==
    (last.op = "signup" /\ SignUpFieldsFilled)
        => /\ ~ShapeAsClaimed(last.email)
                => (last.outcome = "InvalidEmail" /\ SessionAndStackUnchanged)
           /\ ShapeAsClaimed(last.email) => last.outcome # "InvalidEmail"

\* C4, amended: with the fields filled, the e-mails not of the shape X@Y.Z
\* (no whitespace or '@' in the local part or in the domain) end in
\* InvalidEmail without touching session or stack, and every e-mail of
\* that shape passes the rule.
SignUpInvalidEmail ==
    (last.op = "signup" /\ SignUpFieldsFilled)
        => /\ ~ShapeXYZ(last.email)
                => (last.outcome = "InvalidEmail" /\ SessionAndStackUnchanged)
           /\ ShapeXYZ(last.email) => last.outcome # "InvalidEmail"

\* "a@ .a" is turned down although the terms are agreed.
SignUpInvalidEmailWitness ==
    /\ last.op = "signup"
    /\ last.username = "amy"
    /\ last.password = "pw"
    /\ last.agree
    /\ last.email = <<"a", "@", " ", ".", "a">>
    /\ last.outcome = "InvalidEmail"
    /\ SessionAndStackUnchanged

\* C5: a sign-up with the fields filled and an e-mail of the shape X@Y.Z
\* but the terms not agreed ends in TermsNotAccepted and leaves the session
\* and the stack as they were.
SignUpTermsNotAccepted ==
    (/\ last.op = "signup"
     /\ SignUpFieldsFilled
     /\ ShapeXYZ(last.email)
     /\ ~last.agree)
        => /\ last.outcome = "TermsNotAccepted"
           /\ SessionAndStackUnchanged

\* "a@a.a" submitted on native with the box unticked.
SignUpTermsNotAcceptedWitness ==
    /\ last.op = "signup"
    /\ platform = "native"
    /\ last.username = "bob"
    /\ last.password = "pw"
    /\ last.email = <<"a", "@", "a", ".", "a">>
    /\ ~last.agree
    /\ last.outcome = "TermsNotAccepted"
    /\ TopRoute = "SignUp"

\* C6: a login is turned down exactly when the username or the password is
\* empty; it then shows the login error, leaves the session and the stack
\* as they were, and the Login screen keeps its fields for another try.
LoginRejectsEmpty ==
    last.op = "login"
        => /\ (last.username = "" \/ last.password = "")
                <=> last.outcome = "LoginError"
           /\ last.outcome = "LoginError"
                => /\ last.alerts = <<"Login Error">>
                   /\ SessionAndStackUnchanged
                   /\ TopRoute = "Login"
                   /\ loginUsername = last.username
                   /\ loginPassword = last.password

\* On native, the error dialog of a login without password has been closed
\* and the Login screen is back in focus.
LoginRejectsEmptyWitness ==
    /\ last.op = "login"
    /\ platform = "native"
    /\ last.username = "amy"
    /\ last.password = ""
    /\ last.outcome = "LoginError"
    /\ Focused("Login")

\* C7 as stated: every submission of either form shows exactly one alert.
EverySubmissionAlertsOnce ==
    last.op # "none" => Len(last.alerts) = 1

\* The alerts each outcome is to show
ExpectedAlerts(outcome) ==
    CASE outcome = "LoginOK" -> <<>>
      [] outcome = "LoginError" -> <<"Login Error">>
      [] outcome = "MissingField" -> <<"Missing Info">>
      [] outcome = "InvalidEmail" -> <<"Invalid Email">>
      [] outcome = "TermsNotAccepted" -> <<"Terms Required">>
      [] outcome = "SignedUp" -> <<"Signed Up">>

\* C7, amended: every sign-up submission shows exactly one alert, the one of
\* its outcome (success or the failed rule), and a login that is turned
\* down shows exactly one; a successful login shows none. On native the
\* dialog on screen after a submission is that alert.
SubmissionAlerts ==
    last.op # "none"
        => /\ last.alerts = ExpectedAlerts(last.outcome)
           /\ alertOpen # "none" => last.alerts = <<alertOpen>>

\* The terms alert on screen on native.
SubmissionAlertsWitness ==
    /\ last.op = "signup"
    /\ last.outcome = "TermsNotAccepted"
    /\ last.alerts = <<"Terms Required">>
    /\ alertOpen = "Terms Required"

(* ------------------------------------------------------------------ *)
(* Properties of the Selection screen                                  *)
(* ------------------------------------------------------------------ *)

\* The mode n activations after 'all'
ModeAfter(n) ==
    CASE n % 3 = 0 -> "all"
      [] n % 3 = 1 -> "az"
      [] n % 3 = 2 -> "popular"

\* C8: after n activations of the filter button the mode is the one n mod 3
\* gives in the order all, az, popular; three activations are back at all.
FilterCycles == filter = ModeAfter(presses)

\* Three activations, and the mode is 'all' again.
FilterCyclesWitness == presses = 3 /\ filter = "all"

\* Two characters are the same letter, upper or lower case, or the same
\* character.
SameIgnoringCase(c, d) ==
    \/ c = d
    \/ \E i \in 1..Len(UpperLetters) :
           {c, d} = {UpperLetters[i], LowerLetters[i]}

\* The name holds the query at some offset, letter case ignored.
ContainsIgnoringCase(name, query) ==
    \E off \in 0..(Len(name) - Len(query)) :
        \A k \in 1..Len(query) : SameIgnoringCase(name[off + k], query[k])

\* The catalog entries the query matches
MatchingEntries(query) ==
    {originalLettuces[i] : i \in {j \in 1..Len(originalLettuces) :
        ContainsIgnoringCase(originalLettuces[j].name, query)}}

Items(list) == {list[i] : i \in 1..Len(list)}

OakLeaf == <<"O", "a", "k", " ", "L", "e", "a", "f">>

\* C9: in every mode and under every engine the displayed list holds
\* exactly the catalog entries whose name contains the query ignoring case,
\* each once: "oak" shows Oak Leaf alone, the empty query every entry.
SearchShowsMatches ==
    \A e \in Engines :
        LET shown == filteredLettuces(e)
        IN  /\ Items(shown) = MatchingEntries(searchQuery)
            /\ Len(shown) = Cardinality(MatchingEntries(searchQuery))
            /\ searchQuery = <<"o", "a", "k">> => Names(shown) = <<OakLeaf>>
            /\ searchQuery = <<>> => Len(shown) = Len(originalLettuces)

\* The query "Oak", typed with a capital, shows Oak Leaf alone.
SearchShowsMatchesWitness ==
    /\ searchQuery = <<"O", "a", "k">>
    /\ \A e \in Engines : Names(filteredLettuces(e)) = <<OakLeaf>>

\* Position of an entry in the catalog
CatalogIndex(item) ==
    CHOOSE i \in 1..Len(originalLettuces) : originalLettuces[i] = item

\* C10: in popularity mode, under every engine, each entry with popular =
\* true is displayed before each entry with popular = false, and entries
\* with the same popular value (the placeholders, which have none, among
\* them) keep their catalog order.
PopularFirst ==
    filter = "popular"
        => \A e \in Engines :
               LET shown == filteredLettuces(e)
               IN  \A i, j \in 1..Len(shown) :
                       /\ (shown[i].popular = "true"
                               /\ shown[j].popular = "false") => i < j
                       /\ (i < j /\ shown[i].popular = shown[j].popular)
                               => CatalogIndex(shown[i]) < CatalogIndex(shown[j])

\* The whole shipped catalog in popularity mode: Romaine, Oak Leaf, then
\* Butterhead, Cos, then the two placeholders.
PopularFirstWitness ==
    /\ filter = "popular"
    /\ searchQuery = <<>>
    /\ \A e \in Engines :
           Ids(filteredLettuces(e)) = <<"1", "3", "2", "4", "5", "6">>

\* Code units of the characters of the names: space, capitals, small letters
CodeUnitOrder == <<" ">> \o UpperLetters \o LowerLetters

CodeUnit(c) == CHOOSE i \in 1..Len(CodeUnitOrder) : CodeUnitOrder[i] = c

\* name1 <= name2 as strings are compared by <=
NameLeq(name1, name2) ==
    LexCompare([i \in 1..Len(name1) |-> CodeUnit(name1[i])],
               [i \in 1..Len(name2) |-> CodeUnit(name2[i])]) <= 0

Romaine == <<"R", "o", "m", "a", "i", "n", "e">>

Butterhead == <<"B", "u", "t", "t", "e", "r", "h", "e", "a", "d">>

\* C11: in alphabetical mode, under every engine and for every query, each
\* displayed name is <= the next one, by string comparison and by
\* localeCompare alike; the entries Romaine, Butterhead, Oak Leaf come out
\* as Butterhead, Oak Leaf, Romaine.
AlphabeticalSorted ==
    filter = "az"
        => \A e \in Engines :
               LET shown == filteredLettuces(e)
               IN  /\ \A i \in 1..(Len(shown) - 1) :
                          /\ NameLeq(shown[i].name, shown[i + 1].name)
                          /\ LocaleCompare(shown[i].name, shown[i + 1].name) <= 0
                   /\ Ids(FilterByQuery(lettuceArray, searchQuery))
                          = <<"1", "2", "3">>
                          => Names(shown) = <<Butterhead, OakLeaf, Romaine>>

\* The query "e" leaves Romaine, Butterhead and Oak Leaf, shown sorted.
AlphabeticalSortedWitness ==
    /\ filter = "az"
    /\ searchQuery = <<"e">>
    /\ \A e \in Engines :
           Names(filteredLettuces(e)) = <<Butterhead, OakLeaf, Romaine>>

\* C12: the catalog array holds the start-up entries in the start-up order,
\* whatever was searched and whichever modes were gone through.
CatalogNeverMutated == lettuceArray = originalLettuces

\* A query typed and the modes cycled as far as popularity, catalog intact.
CatalogNeverMutatedWitness ==
    /\ presses >= 2
    /\ filter = "popular"
    /\ Len(searchQuery) > 0
    /\ lettuceArray = originalLettuces

\* C13: the holder reads null as long as setUsername was never called, and
\* after setUsername(name) it reads name, whatever name is ('' included) and
\* whatever it held before.
HolderGetSet ==
    /\ sessionWrites = 0 => contextUsername = NULL
    /\ last.op = "set" => contextUsername = last.username

\* setUsername('') called on a holder that held a name: it now reads ''.
HolderGetSetWitness ==
    /\ last.op = "set"
    /\ last.username = ""
    /\ last.session0 \in Usernames \ {""}
    /\ contextUsername = ""

\* The step is a form submission that passed its form's checks.
SubmittedOK ==
    /\ last' # last
    /\ last'.outcome \in {"LoginOK", "SignedUp"}

\* C14 as stated: the session username is assigned at most once in a run.
SessionSetOnce == sessionWrites <= 1

\* C14: the session username is assigned once per successful submission and
\* so possibly several times in a run: every assignment is made by a Login or
\* SignUp submission that passed the form's checks and stores the submitted
\* name, every successful Login submission is an assignment, and between
\* submissions (logging out included) the session keeps its value.
SessionSetPerSubmission ==
    [][ /\ sessionWrites' # sessionWrites \/ contextUsername' # contextUsername
            => /\ SubmittedOK
               /\ sessionWrites' = Written(sessionWrites)
               /\ contextUsername' = last'.username
        /\ SubmittedOK /\ last'.op = "login"
            => sessionWrites' = Written(sessionWrites)
      ]_vars

\* A second login, made after logging out of a session that was set.
SessionSetPerSubmissionWitness ==
    /\ sessionWrites >= 2
    /\ last.outcome = "LoginOK"
    /\ last.session0 # NULL
    /\ \E i \in 1..Len(last.stack0) : last.stack0[i] = "Icon"
    /\ contextUsername = last.username

\* C15: only a Login or SignUp submission changes the session username;
\* editing the Profile form, Save Changes, the web navbar's items, Logout on
\* either navbar, the tab bar and every other step leave it as it was.
SingleWriter ==
    [][ /\ ProfileSave => contextUsername' = contextUsername
        /\ (\E u \in Usernames : ProfileSetUser(u))
            => contextUsername' = contextUsername
        /\ (\E i \in 1..Len(NAV_ITEMS) : WebNavPress(NAV_ITEMS[i]))
            => contextUsername' = contextUsername
        /\ TopNavLogout => contextUsername' = contextUsername
        /\ ~(HandleLogin \/ HandleSignUp)
            => contextUsername' = contextUsername
      ]_vars

\* Save Changes pressed with another name in the Profile form: the session
\* still holds the name of the login.
SingleWriterWitness ==
    /\ tab = "Profile"
    /\ alertOpen = "Profile Updated"
    /\ profileUser \in Usernames
    /\ contextUsername \in Usernames
    /\ profileUser # contextUsername

\* C19: Dashboard and Insights show slot 1 with a plant and its readings and
\* slots 2 and 3 empty, whatever was pressed, the add button of the detail
\* screen included.
SlotsStatic ==
    /\ Len(dashboardSlots) = 3 /\ Len(insightsSlots) = 3
    /\ \A i \in 1..3 :
           /\ dashboardSlots[i].id = i /\ insightsSlots[i].id = i
           /\ dashboardSlots[i].hasPlant = (i = 1)
           /\ insightsSlots[i].hasPlant = (i = 1)
    /\ dashboardSlots[1].data = DashboardScreenSlots[1].data
    /\ insightsSlots[1].data = InsightsScreenSlots[1].data

\* The add button of the detail screen of a lettuce was pressed (its
\* "Lettuce added! Check your slot." dialog is up) and the slots are as
\* before.
SlotsStaticWitness ==
    /\ TopRoute = "LettuceDetail"
    /\ lettuce.name \in {Romaine, Butterhead}
    /\ alertOpen = "Success"
    /\ ~dashboardSlots[2].hasPlant
    /\ ~insightsSlots[2].hasPlant

\* C20: on native a successful sign-up submission sets the session username
\* and leaves the SignUp screen on show under the "Signed Up" dialog, and the
\* step from SignUp to Dashboard is the press on that dialog's OK; on web the
\* successful submission itself shows the alert and ends on Dashboard.
SignUpNavigatesOnOK ==
    [][ LET signedUp == /\ last' # last
                        /\ last'.op = "signup"
                        /\ last'.outcome = "SignedUp"
            shown == navStack[Len(navStack)]
            shownAfter == navStack'[Len(navStack')]
        IN  /\ signedUp /\ platform = "native"
                => /\ contextUsername' = last'.username
                   /\ navStack' = navStack
                   /\ shownAfter = "SignUp"
                   /\ alertOpen' = "Signed Up"
            /\ signedUp /\ platform = "web"
                => /\ last'.alerts = <<"Signed Up">>
                   /\ alertOpen' = "none"
                   /\ shownAfter = "Dashboard"
            /\ platform = "native" /\ shown = "SignUp"
                                   /\ shownAfter = "Dashboard"
                => alertOpen = "Signed Up" /\ alertOpen' = "none"
            /\ alertOpen = "Signed Up" /\ alertOpen' = "none"
                => shown = "SignUp" /\ shownAfter = "Dashboard"
      ]_vars

\* Native, after a successful submission and before OK: the session holds
\* the submitted name and the SignUp screen is still on show.
SignUpNavigatesOnOKWitness ==
    /\ platform = "native"
    /\ TopRoute = "SignUp"
    /\ alertOpen = "Signed Up"
    /\ last.outcome = "SignedUp"
    /\ contextUsername = last.username
    /\ contextUsername # NULL

\* The boolean a flag name of the observer stands for
FlagValue(flag) ==
    CASE flag[1] = "modal" -> showModal[flag[2]]
      [] flag[1] = "tooltip" -> showTooltip[flag[2]]
      [] flag[1] = "checkbox" -> remember

\* C16: two handlers in a row on one flag (a metric's sensor card and then
\* its modal's Done or onRequestClose; on native two presses of a tooltip
\* info icon; two presses of a checkbox) leave the flag at the value it had
\* before the first, which for a modal opened and closed is false.
ToggleRoundTrip ==
    (last.op = "toggle" /\ last.times = 2) =>
        /\ FlagValue(last.flag) = last.before
        /\ last.flag[1] = "modal" /\ ~last.before
               => ~showModal[last.flag[2]]

\* The temperature modal has been opened and closed.
ToggleRoundTripWitness ==
    /\ last.op = "toggle"
    /\ last.times = 2
    /\ last.flag = <<"modal", "Temp">>
    /\ ~last.before
    /\ currentReading["Temp"] = "22.5"

\* InsightsScreen: the preference a metric's modal lets the user adjust
Preference(m) ==
    CASE m = "Water" -> humidityPref
      [] m = "Light" -> lightMode
      [] m = "Ph" -> phMode
      [] OTHER -> NULL

\* C17: a step that opens or closes the detail modal of one metric leaves the
\* modal flag, the tooltip flag and the preference of every other metric as
\* they were.
ModalFlagsIndependent ==
    [][\A m \in Metrics :
           showModal'[m] # showModal[m] =>
               \A x \in Metrics \ {m} :
                   /\ showModal'[x] = showModal[x]
                   /\ showTooltip'[x] = showTooltip[x]
                   /\ Preference(x)' = Preference(x)]_vars

\* The temperature modal has just been opened or closed while the water
\* tooltip is on show and the water and light preferences have been changed.
ModalFlagsIndependentWitness ==
    /\ last.op = "toggle"
    /\ last.flag = <<"modal", "Temp">>
    /\ showTooltip["Water"]
    /\ humidityPref = "Low"
    /\ lightMode = "Manual"

\* C18: a step that changes a metric's preference (the target water volume
\* tier, the light mode, the pH mode) leaves everything InsightsScreen
\* renders outside that metric's modal, the slots' sensor cards included, as
\* it was, on web and on native.
PreferenceStaysInModal ==
    [][\A m \in Metrics :
           Preference(m)' # Preference(m) =>
               OutsideModal(m)' = OutsideModal(m)]_vars

\* C21: on native a press of a metric's info icon inverts that metric's
\* tooltip flag; on web a press leaves it alone, mouse-enter sets it and
\* mouse-leave clears it, and the tooltip flag is true exactly while the
\* pointer is over the icon.
TooltipPerPlatform ==
    /\ [][\A m \in Metrics :
              /\ (TooltipPress(m) /\ platform = "native")
                     => showTooltip'[m] = ~showTooltip[m]
              /\ (TooltipPress(m) /\ platform = "web")
                     => showTooltip'[m] = showTooltip[m]
              /\ TooltipMouse(m, TRUE) => showTooltip'[m]
              /\ TooltipMouse(m, FALSE) => ~showTooltip'[m]]_vars
    /\ [](platform = "web" =>
              \A m \in Metrics : showTooltip[m] <=> pointerOver = m)

\* The catalog entry a card of the Selection screen stands for
CatalogEntry(id) ==
    originalLettuces[CHOOSE k \in 1..Len(originalLettuces) :
                         originalLettuces[k].id = id]

\* C22: after a press of a placeholder card the notice has been shown and
\* the stack is as before the press; after a press of any other card
\* LettuceDetail is on top of that stack with a lettuce whose name and image
\* are the pressed entry's, and no notice has been shown; the catalog still
\* holds the pressed entry as it was.
CardPressNavigates ==
    last.op = "card" =>
        LET item == CatalogEntry(last.flag[2])
        IN  /\ \E k \in 1..Len(lettuceArray) : lettuceArray[k] = item
            /\ lettuceArray = originalLettuces
            /\ IF item.placeholder = "true"
               THEN /\ navStack = last.stack0
                    /\ last.alerts = <<"Notice">>
                    /\ alertOpen \in {"none", AlertAfter("Notice")}
               ELSE /\ navStack = Append(last.stack0, "LettuceDetail")
                    /\ last.alerts = <<>>
                    /\ alertOpen = "none"
                    /\ lettuce.name = item.name
                    /\ lettuce.image = item.image

\* The Oak Leaf card was pressed in A-Z mode with a query typed.
CardPressNavigatesWitness ==
    /\ last.op = "card"
    /\ TopRoute = "LettuceDetail"
    /\ lettuce.name = OakLeaf
    /\ lettuce.image = "lettuce_oakleaf.png"
    /\ filter = "az"
    /\ searchQuery = <<"a">>

\* C23: the session username is null or a non-empty string, and every value
\* it takes is the username field of the Login or SignUp submission that
\* succeeds in that very step.
SessionIsSubmittedName ==
    /\ [](contextUsername = NULL \/ contextUsername \in Usernames \ {""})
    /\ [][contextUsername' # contextUsername =>
              /\ SubmittedOK
              /\ last'.op \in {"login", "signup"}
              /\ contextUsername' = last'.username
              /\ contextUsername' # ""]_vars

\* A second name has been stored, by a login made after logging out.
SessionIsSubmittedNameWitness ==
    /\ last.op = "login"
    /\ last.outcome = "LoginOK"
    /\ last.session0 = "amy"
    /\ contextUsername = "bob"

\* C24: a sign-up submission has exactly one of four outcomes, by the
\* precedence MissingField (a field is empty), InvalidEmail (the e-mail is
\* not of the shape X@Y.Z), TermsNotAccepted (the box is unticked), success;
\* it shows that outcome's alert and no other.
SignUpPrecedence ==
    last.op = "signup" =>
        /\ last.outcome \in {"MissingField", "InvalidEmail",
                             "TermsNotAccepted", "SignedUp"}
        /\ last.outcome = "MissingField" <=> ~SignUpFieldsFilled
        /\ last.outcome = "InvalidEmail"
               <=> SignUpFieldsFilled /\ ~ShapeXYZ(last.email)
        /\ last.outcome = "TermsNotAccepted"
               <=> SignUpFieldsFilled /\ ShapeXYZ(last.email) /\ ~last.agree
        /\ last.outcome = "SignedUp"
               <=> SignUpFieldsFilled /\ ShapeXYZ(last.email) /\ last.agree
        /\ last.alerts = <<SignUpAlertTitle(last.outcome)>>

\* A malformed e-mail submitted with the fields filled and the box unticked:
\* the e-mail's alert comes, not the terms'.
SignUpPrecedenceWitness ==
    /\ last.op = "signup"
    /\ SignUpFieldsFilled
    /\ ~ShapeXYZ(last.email)
    /\ ~last.agree
    /\ last.outcome = "InvalidEmail"

\* The entries of a list are in the order of the catalog, none twice.
InCatalogOrder(list) ==
    \A i, j \in 1..Len(list) :
        i < j => CatalogIndex(list[i]) < CatalogIndex(list[j])

\* C25: for the query typed, every mode shows, under every sort procedure,
\* the entries that mode 'all' shows, each once, and mode 'all' shows them in
\* catalog order.
ModePermutes ==
    LET reference == filteredLettucesIn("insertion", "all")
    IN  \A e \in Engines : \A mode \in {"all", "az", "popular"} :
            LET shown == filteredLettucesIn(e, mode)
            IN  /\ Items(shown) = Items(reference)
                /\ Len(shown) = Len(reference)
                /\ Cardinality(Items(shown)) = Len(shown)
                /\ mode = "all" => InCatalogOrder(shown)
                /\ mode = filter => shown = filteredLettuces(e)

\* The query "o" in A-Z mode: five entries, Romaine moved from first to last.
ModePermutesWitness ==
    /\ searchQuery = <<"o">>
    /\ filter = "az"
    /\ presses >= 1
    /\ \A e \in Engines :
           /\ Len(filteredLettuces(e)) = 5
           /\ filteredLettuces(e)[5].name = Romaine

\* C26: the light level starts at 2 and is always an integer in 0..10; a
\* press of the minus button takes one from it and a press of the plus
\* button adds one to it; the minus button is disabled at 0 and the plus
\* button at 10.
LightLevelInRange ==
    /\ [](lightLevel \in 0..10)
    /\ [](NoModal /\ currentReading["Light"] = NULL => lightLevel = 2)
    /\ [][/\ lightLevel' # lightLevel =>
                 LightLevelMinus \/ LightLevelPlus
          /\ LightLevelMinus => lightLevel' = lightLevel - 1
          /\ LightLevelPlus => lightLevel' = lightLevel + 1
          /\ lightLevel = 0 => ~LightLevelMinus
          /\ lightLevel = 10 => ~LightLevelPlus]_vars

\* The level has been taken up to 10 with the manual controls on show.
LightLevelInRangeWitness ==
    /\ ManualControlsShown
    /\ lightLevel = 10
    /\ last = NoSubmission

\* The sensor metrics, whose cards show a reading of the slot
SensorMetrics == {"Temp", "Humidity", "Ph", "TDS", "Light"}

\* The reading of metric m in the slot data, as the claim words it
SlotReading(slot, m) ==
    CASE m = "Temp" -> slot.data.temp
      [] m = "Humidity" -> slot.data.humidity
      [] m = "Ph" -> slot.data.ph
      [] m = "Light" -> slot.data.light
      [] m = "TDS" -> IF "TDS" \in DOMAIN slot.data
                      THEN slot.data.TDS ELSE "846.69"

\* C27: while the modal of a sensor metric is visible, the metric's current
\* value is not null and is the reading of the planted slot whose card was
\* pressed; the press that makes the modal visible assigns it.
ModalValueAssigned ==
    /\ [](\A m \in SensorMetrics :
              showModal[m] =>
                  /\ currentReading[m] # NULL
                  /\ \E i \in 1..Len(insightsSlots) :
                         /\ insightsSlots[i].hasPlant
                         /\ currentReading[m] =
                                SlotReading(insightsSlots[i], m))
    /\ [][\A m \in SensorMetrics :
              ~showModal[m] /\ showModal'[m] =>
                  \E i \in 1..Len(insightsSlots) :
                      /\ insightsSlots[i].hasPlant
                      /\ currentReading'[m] =
                             SlotReading(insightsSlots[i], m)]_vars

\* The TDS modal is visible after a press of the TDS card with no value
\* assigned before.
ModalValueAssignedWitness ==
    /\ InModal("TDS")
    /\ currentReading["TDS"] = "846.69"
    /\ currentReading["Temp"] = NULL
    /\ last.op = "toggle" /\ last.flag = <<"modal", "TDS">>
    /\ last.times = 1 /\ ~last.before

\* C28: a step that closes the modal of a metric writes that modal's
\* visibility flag and nothing else of the screen's state: the tooltip
\* flags, the current values and the preferences (water tier, light mode,
\* pH mode, light level, light on/off) keep their values; and the tooltip
\* flag of a metric does not change while its modal is closed, so a tooltip
\* left visible is visible again when the modal is reopened.
ModalCloseFrame ==
    [][\A m \in Metrics :
          /\ showModal[m] /\ ~showModal'[m] =>
                 /\ showModal' = [showModal EXCEPT ![m] = FALSE]
                 /\ showTooltip' = showTooltip
                 /\ currentReading' = currentReading
                 /\ humidityPref' = humidityPref
                 /\ lightMode' = lightMode
                 /\ phMode' = phMode
                 /\ lightLevel' = lightLevel
                 /\ isLightOn' = isLightOn
          /\ ~showModal[m] => showTooltip'[m] = showTooltip[m]]_vars

\* On native the light modal has been closed and reopened with its tooltip
\* left visible and the manual controls changed.
ModalCloseFrameWitness ==
    /\ platform = "native"
    /\ InModal("Light")
    /\ last.op = "toggle" /\ last.flag = <<"modal", "Light">>
    /\ last.times = 2 /\ last.before
    /\ showTooltip["Light"]
    /\ lightMode = "Manual" /\ lightLevel = 3 /\ isLightOn

\* C29: every route name a handler passes to navigation.navigate or
\* navigation.reset, and every route name the button of an open dialog
\* will pass to navigation.navigate, is registered in one of the navigators.
RequestedRoutesRegistered ==
    /\ last.route \in RegisteredRoutes \cup {"none"}
    /\ alertOpen # "none" =>
           AlertTarget(alertOpen) \in RegisteredRoutes \cup {"none"}

==============================================================================
